---- MODULE Spec2Model ----
(***************************************************************************)
(* A model of the declarative macros of src/macros.rs: the cfg_if!        *)
(* cascade selector, the s! / s_paren! / s_no_extra_traits! / missing! /  *)
(* e! declaration templates and the f! / safe_f! / const_fn! function     *)
(* templates.  Macro expansion is modelled as a state machine: one action *)
(* per macro rule, applied to an invocation chosen in the initial state.  *)
(***************************************************************************)
EXTENDS Integers, Sequences, FiniteSets, TLC

\* ---------------------------------------------------------------- bounds
MaxArms == 2
MaxDecls == 1
MaxAttrs == 1
MaxQuals == 1

\* Configuration atoms a #[cfg(...)] clause can name; the ambient
\* configuration is the set of atoms that are true.
Features == {"extra_traits", "const-extern-fn"}
Atoms == Features
Configs == SUBSET Atoms

\* Opaque items of a block, re-emitted verbatim.
ItemSeq == <<"x", "y">>
Blocks == {SubSeq(ItemSeq, 1, k) : k \in 0..Len(ItemSeq)}

SeqsUpTo(S, n) == UNION {[1..k -> S] : k \in 0..n}

\* The clause lists $($meta),* of one #[cfg(...)]: zero or more clauses,
\* no clause written twice.
ClauseLists ==
    {s \in SeqsUpTo(Atoms, Cardinality(Atoms)) :
        \A i, j \in DOMAIN s : i # j => s[i] # s[j]}

\* One entry ( ($($m),*) ($($it)*) ) of the @__items list.
Entries == [m : ClauseLists, it : Blocks]

VARIABLES
    config,   \* the ambient configuration: the set of true atoms
    macro,    \* the macro invoked
    inv,      \* the cfg_if! invocation
    pc,       \* position of the expansion
    nots,     \* cfg_if! @__items: the accumulated $not list
    rest,     \* cfg_if! @__items: the entries still to expand
    out,      \* cfg_if!: the @__apply invocations emitted so far
    tinv,     \* the declarations given to a declaration template
    pending,  \* the `it:` invocations still to expand
    decls,    \* the declarations emitted
    diag,     \* the build errors raised
    fcall,    \* the function template invocation
    fnout     \* the functions emitted

vars == <<config, macro, inv, pc, nots, rest, out, tinv, pending, decls,
          diag, fcall, fnout>>

cfgVars == <<nots, rest, out>>
traitVars == <<tinv, pending, decls, diag>>
fnVars == <<fcall, fnout>>

NoInv == [form |-> "none", arms |-> <<>>, hasElse |-> FALSE, els |-> <<>>]
NoCall == [name |-> "none"]

\* ------------------------------------------------------------- cfg_if!

\* cfg(all($($m,)* not(any($($not),*)))) as written by the @__items rule.
ItemsGuard(n, m) == [all |-> m, notany |-> n]

\* The compiler's reading of that attribute under configuration c: every
\* clause of all(...) holds and no clause of any(...) holds.
EvalGuard(g, c) ==
    /\ \A i \in DOMAIN g.all : g.all[i] \in c
    /\ ~ \E j \in DOMAIN g.notany : g.notany[j] \in c

\* (variant: the earlier clauses are dropped)
NextNotsReplace(n, m) == m

\* ($($not,)* $($m,)*): the list handed to the recursive invocation.
NextNots(n, m) == n \o m

\* cfg_if! { @__apply cfg(...), $($it)* } as emitted by the @__items rule.
ApplyCall(n, e) == [cfg |-> ItemsGuard(n, e.m), its |-> e.it]

\* @__apply: $(#[$m] $it)*
Apply(a) == [i \in DOMAIN a.its |-> [cfg |-> a.cfg, item |-> a.its[i]]]

RECURSIVE Flatten(_)
Flatten(calls) ==
    IF calls = <<>> THEN <<>>
    ELSE Apply(Head(calls)) \o Flatten(Tail(calls))

\* The whole @__items recursion as a function of its two arguments.
RECURSIVE ExpandItems(_, _)
ExpandItems(n, r) ==
    IF r = <<>> THEN <<>>
    ELSE <<ApplyCall(n, Head(r))>>
             \o ExpandItems(NextNots(n, Head(r).m), Tail(r))

\* Rule 1 accepts zero or more `if` arms separated by `else`, then a final
\* `else { ... }`.
ChainElseMatches(i) == i.form = "chain" /\ i.hasElse

\* (variant: the leading `if` arm is optional too)
ChainMatchesEmpty(i) == i.form = "chain" /\ ~i.hasElse

\* Rule 2 accepts one `if` arm, then zero or more `else if` arms.
ChainMatches(i) == i.form = "chain" /\ ~i.hasElse /\ Len(i.arms) >= 1

\* Rules 3 and 4 accept the @__items form.
ItemsMatches(i) == i.form = "items"

\* (variant: the final else entry is left out)
ChainElseListNoElse(i) == i.arms

\* The list rule 1 hands to @__items.
ChainElseList(i) == i.arms \o <<[m |-> <<>>, it |-> i.els]>>

\* The list rule 2 hands to @__items.
ChainList(i) == i.arms \o <<[m |-> <<>>, it |-> <<>>]>>

ChainElseRule ==
    /\ pc = "call" /\ macro = "cfg_if"
    /\ ChainElseMatches(inv)
    /\ pc' = "items"
    /\ nots' = <<>>
    /\ rest' = ChainElseList(inv)
    /\ UNCHANGED <<config, macro, inv, out, traitVars, fnVars>>

ChainRule ==
    /\ pc = "call" /\ macro = "cfg_if"
    /\ ChainMatches(inv)
    /\ pc' = "items"
    /\ nots' = <<>>
    /\ rest' = ChainList(inv)
    /\ UNCHANGED <<config, macro, inv, out, traitVars, fnVars>>

\* An invocation written directly in the @__items form.
ItemsCall ==
    /\ pc = "call" /\ macro = "cfg_if"
    /\ ItemsMatches(inv)
    /\ pc' = "items"
    /\ nots' = <<>>
    /\ rest' = inv.arms
    /\ UNCHANGED <<config, macro, inv, out, traitVars, fnVars>>

\* No rule of cfg_if! matches the invocation.
CfgIfNoRule ==
    /\ pc = "call" /\ macro = "cfg_if"
    /\ ~ChainElseMatches(inv) /\ ~ChainMatches(inv) /\ ~ItemsMatches(inv)
    /\ pc' = "error"
    /\ UNCHANGED <<config, macro, inv, cfgVars, traitVars, fnVars>>

\* Rule 4: emit the head entry through @__apply, recurse on the rest.
ItemsRule ==
    /\ pc = "items" /\ rest # <<>>
    /\ out' = Append(out, ApplyCall(nots, Head(rest)))
    /\ nots' = NextNots(nots, Head(rest).m)
    /\ rest' = Tail(rest)
    /\ UNCHANGED <<config, macro, inv, pc, traitVars, fnVars>>

\* Rule 3: nothing left, expand to nothing.
ItemsEnd ==
    /\ pc = "items" /\ rest = <<>>
    /\ pc' = "done"
    /\ UNCHANGED <<config, macro, inv, cfgVars, traitVars, fnVars>>

CfgIfInvocations ==
    {[form |-> "chain", arms |-> a, hasElse |-> TRUE, els |-> b] :
        a \in SeqsUpTo(Entries, MaxArms), b \in Blocks}
    \cup
    {[form |-> f, arms |-> a, hasElse |-> FALSE, els |-> <<>>] :
        f \in {"chain", "items"}, a \in SeqsUpTo(Entries, MaxArms)}

InitCfgIf ==
    /\ config = {}
    /\ macro = "cfg_if"
    /\ inv \in CfgIfInvocations
    /\ pc = "call"
    /\ nots = <<>> /\ rest = <<>> /\ out = <<>>
    /\ tinv = <<>> /\ pending = <<>> /\ decls = <<>> /\ diag = <<>>
    /\ fcall = NoCall /\ fnout = <<>>

NextCfgIf ==
    \/ ChainElseRule
    \/ ChainRule
    \/ ItemsCall
    \/ CfgIfNoRule
    \/ ItemsRule
    \/ ItemsEnd

SpecCfgIf == InitCfgIf /\ [][NextCfgIf]_vars

\* Expansion is never suspended: an enabled rule is eventually applied.
FairSpecCfgIf == SpecCfgIf /\ WF_vars(NextCfgIf)

\* ------------------------------------------- declaration templates

TraitMacros == {"s", "s_paren", "s_no_extra_traits", "missing", "e"}

\* Attributes written by the caller on a declaration, passed through.
CallerAttrs == {"doc"}
AttrLists == SeqsUpTo(CallerAttrs, MaxAttrs)

\* Opaque field lists: empty, or some tokens.
FieldLists == {<<>>, <<"f">>}

\* `pub <kw> <name> { fields }` or `pub <kw> <name> ( fields );`
DeclInputs ==
    [attrs : AttrLists, kw : {"struct", "union", "enum"}, name : {"T"},
     shape : {"brace", "paren"}, fields : FieldLists]

ReprC == "repr(C)"
ExtraDerive == "cfg_attr(feature = extra_traits, derive(Debug, Eq, Hash, PartialEq))"
BaseDerive == "derive(Copy, Clone)"
AllowDeprecated == "allow(deprecated)"
AllowMissingCopy == "allow(missing_copy_implementations)"

UnionError == "unions cannot derive extra traits, use s_no_extra_traits instead"
NoRulesError == "no rules expected this token in macro call"

Baseline == {"Copy", "Clone"}
Extended == {"Debug", "Eq", "Hash", "PartialEq"}

\* The traits one attribute derives under configuration c.
DerivesOf(attr, c) ==
    IF attr = BaseDerive THEN Baseline
    ELSE IF attr = ExtraDerive /\ "extra_traits" \in c THEN Extended
    ELSE {}

\* __item!: the item, unchanged.
Item(i) == i

\* (variant: the cfg_attr line is left out)
SStructAttrsNoExtra(a) == <<ReprC, BaseDerive, AllowDeprecated>> \o a

\* s! `it:` struct rule: the attributes written before the struct.
SStructAttrs(a) == <<ReprC, ExtraDerive, BaseDerive, AllowDeprecated>> \o a

\* s_paren!: the attributes written before the tuple struct.
SParenAttrs(a) == <<ExtraDerive, BaseDerive>> \o a

\* s_no_extra_traits! `it:` rules.
SNoExtraUnionAttrs(a) == <<ReprC, BaseDerive>> \o a
SNoExtraStructAttrs(a) == <<ReprC, BaseDerive>> \o a

\* missing!: the caller's attributes, then the lint allowance.
MissingAttrs(a) == a \o <<AllowMissingCopy>>

\* e!: the attributes written before the enum.
EAttrs(a) == <<ExtraDerive, BaseDerive>> \o a

Emit(attrs, d) ==
    Item([attrs |-> attrs, kw |-> d.kw, name |-> d.name, shape |-> d.shape,
          fields |-> d.fields])

\* $( $(#[$attr])* pub $t:ident $i:ident { $($field:tt)* } )*
BraceListMatches(ds) == \A i \in DOMAIN ds : ds[i].shape = "brace"

\* $( $(#[$attr])* pub struct $i:ident ( $($field:tt)* ); )*
ParenListMatches(ds) ==
    \A i \in DOMAIN ds : ds[i].shape = "paren" /\ ds[i].kw = "struct"

\* $( $(#[$attr])* pub enum $i:ident {} )*
MissingListMatches(ds) ==
    \A i \in DOMAIN ds :
        ds[i].shape = "brace" /\ ds[i].kw = "enum" /\ ds[i].fields = <<>>

\* $( $(#[$attr])* pub enum $i:ident { $($field:tt)* } )*
EnumListMatches(ds) ==
    \A i \in DOMAIN ds : ds[i].shape = "brace" /\ ds[i].kw = "enum"

OuterMatches(mc, ds) ==
    CASE mc \in {"s", "s_no_extra_traits"} -> BraceListMatches(ds)
      [] mc = "s_paren" -> ParenListMatches(ds)
      [] mc = "missing" -> MissingListMatches(ds)
      [] mc = "e" -> EnumListMatches(ds)

\* (variant: no union rule, the struct rule takes any `pub $t`)
SItRuleUnionAsStruct(d) ==
    IF d.kw \in {"union", "struct"} THEN "struct" ELSE "none"

\* The `it:` rule of s! that matches a declaration: the union rule is
\* tried first, then the struct rule.
SItRule(d) ==
    IF d.kw = "union" THEN "union"
    ELSE IF d.kw = "struct" THEN "struct"
    ELSE "none"

\* The `it:` rule of s_no_extra_traits! that matches a declaration.
SNoExtraItRule(d) ==
    IF d.kw = "union" THEN "union"
    ELSE IF d.kw = "struct" THEN "struct"
    ELSE "none"

\* s! and s_no_extra_traits!, first rule: one `it:` invocation each.
ItListCall ==
    /\ pc = "call" /\ macro \in {"s", "s_no_extra_traits"}
    /\ BraceListMatches(tinv)
    /\ pending' = tinv
    /\ pc' = "it"
    /\ UNCHANGED <<config, macro, inv, cfgVars, tinv, decls, diag, fnVars>>

SItUnion ==
    /\ pc = "it" /\ macro = "s" /\ pending # <<>>
    /\ SItRule(Head(pending)) = "union"
    /\ diag' = Append(diag, UnionError)
    /\ pending' = Tail(pending)
    /\ UNCHANGED <<config, macro, inv, pc, cfgVars, tinv, decls, fnVars>>

SItStruct ==
    /\ pc = "it" /\ macro = "s" /\ pending # <<>>
    /\ SItRule(Head(pending)) = "struct"
    /\ decls' = Append(decls,
           Emit(SStructAttrs(Head(pending).attrs),
                [Head(pending) EXCEPT !.kw = "struct"]))
    /\ pending' = Tail(pending)
    /\ UNCHANGED <<config, macro, inv, pc, cfgVars, tinv, diag, fnVars>>

SNoExtraItUnion ==
    /\ pc = "it" /\ macro = "s_no_extra_traits" /\ pending # <<>>
    /\ SNoExtraItRule(Head(pending)) = "union"
    /\ decls' = Append(decls,
           Emit(SNoExtraUnionAttrs(Head(pending).attrs),
                [Head(pending) EXCEPT !.kw = "union"]))
    /\ pending' = Tail(pending)
    /\ UNCHANGED <<config, macro, inv, pc, cfgVars, tinv, diag, fnVars>>

SNoExtraItStruct ==
    /\ pc = "it" /\ macro = "s_no_extra_traits" /\ pending # <<>>
    /\ SNoExtraItRule(Head(pending)) = "struct"
    /\ decls' = Append(decls,
           Emit(SNoExtraStructAttrs(Head(pending).attrs),
                [Head(pending) EXCEPT !.kw = "struct"]))
    /\ pending' = Tail(pending)
    /\ UNCHANGED <<config, macro, inv, pc, cfgVars, tinv, diag, fnVars>>

\* No `it:` rule matches (the declaration is neither struct nor union).
ItNoRule ==
    /\ pc = "it" /\ pending # <<>>
    /\ IF macro = "s" THEN SItRule(Head(pending)) = "none"
       ELSE SNoExtraItRule(Head(pending)) = "none"
    /\ diag' = Append(diag, NoRulesError)
    /\ pending' = Tail(pending)
    /\ UNCHANGED <<config, macro, inv, pc, cfgVars, tinv, decls, fnVars>>

\* Every `it:` invocation is expanded: the build fails if any raised an
\* error.
ItDone ==
    /\ pc = "it" /\ pending = <<>>
    /\ pc' = IF diag = <<>> THEN "done" ELSE "error"
    /\ UNCHANGED <<config, macro, inv, cfgVars, traitVars, fnVars>>

SParenCall ==
    /\ pc = "call" /\ macro = "s_paren"
    /\ ParenListMatches(tinv)
    /\ decls' = [i \in DOMAIN tinv |-> Emit(SParenAttrs(tinv[i].attrs), tinv[i])]
    /\ pc' = "done"
    /\ UNCHANGED <<config, macro, inv, cfgVars, tinv, pending, diag, fnVars>>

MissingCall ==
    /\ pc = "call" /\ macro = "missing"
    /\ MissingListMatches(tinv)
    /\ decls' = [i \in DOMAIN tinv |->
                    [attrs |-> MissingAttrs(tinv[i].attrs), kw |-> "enum",
                     name |-> tinv[i].name, shape |-> "brace",
                     fields |-> <<>>]]
    /\ pc' = "done"
    /\ UNCHANGED <<config, macro, inv, cfgVars, tinv, pending, diag, fnVars>>

ECall ==
    /\ pc = "call" /\ macro = "e"
    /\ EnumListMatches(tinv)
    /\ decls' = [i \in DOMAIN tinv |-> Emit(EAttrs(tinv[i].attrs), tinv[i])]
    /\ pc' = "done"
    /\ UNCHANGED <<config, macro, inv, cfgVars, tinv, pending, diag, fnVars>>

\* No rule of the template matches the invocation.
TraitNoRule ==
    /\ pc = "call" /\ macro \in TraitMacros
    /\ ~OuterMatches(macro, tinv)
    /\ diag' = <<NoRulesError>>
    /\ pc' = "error"
    /\ UNCHANGED <<config, macro, inv, cfgVars, tinv, pending, decls, fnVars>>

InitTraits ==
    /\ config \in Configs
    /\ macro \in TraitMacros
    /\ tinv \in SeqsUpTo(DeclInputs, MaxDecls)
    /\ inv = NoInv
    /\ pc = "call"
    /\ nots = <<>> /\ rest = <<>> /\ out = <<>>
    /\ pending = <<>> /\ decls = <<>> /\ diag = <<>>
    /\ fcall = NoCall /\ fnout = <<>>

NextTraits ==
    \/ ItListCall
    \/ SItUnion
    \/ SItStruct
    \/ SNoExtraItUnion
    \/ SNoExtraItStruct
    \/ ItNoRule
    \/ ItDone
    \/ SParenCall
    \/ MissingCall
    \/ ECall
    \/ TraitNoRule

SpecTraits == InitTraits /\ [][NextTraits]_vars

\* ------------------------------------------------ function templates

FnMacros == {"f", "safe_f", "const_fn"}

\* The macro_rules! definitions inside the cfg_if! cascade: whether the
\* pattern starts with `pub`, whether the transcriber writes $constness,
\* and the fixed tokens before `fn`.
FOn == [name |-> "f", pub |-> TRUE, keep |-> TRUE,
        fixed |-> <<"unsafe", "extern">>]
SafeFOn == [name |-> "safe_f", pub |-> TRUE, keep |-> TRUE,
            fixed |-> <<"extern">>]
ConstFnOn == [name |-> "const_fn", pub |-> FALSE, keep |-> TRUE,
              fixed |-> <<>>]
FOff == [name |-> "f", pub |-> TRUE, keep |-> FALSE,
         fixed |-> <<"unsafe", "extern">>]
\* (variant: the off-definition of safe_f! still writes $constness)
SafeFOffKeeps == [name |-> "safe_f", pub |-> TRUE, keep |-> TRUE,
                  fixed |-> <<"extern">>]
SafeFOff == [name |-> "safe_f", pub |-> TRUE, keep |-> FALSE,
             fixed |-> <<"extern">>]
ConstFnOff == [name |-> "const_fn", pub |-> FALSE, keep |-> FALSE,
               fixed |-> <<>>]

\* cfg_if! { if #[cfg(feature = "const-extern-fn")] { ... } else { ... } }
ConstFnCascade ==
    [form |-> "chain",
     arms |-> <<[m |-> <<"const-extern-fn">>,
                 it |-> <<FOn, SafeFOn, ConstFnOn>>]>>,
     hasElse |-> TRUE,
     els |-> <<FOff, SafeFOff, ConstFnOff>>]

\* $(#[$attr])* [pub] $({$constness})* fn <signature> { <body> }
FnInputs ==
    [attrs : AttrLists, pub : BOOLEAN,
     quals : SeqsUpTo({"const"}, MaxQuals), sig : {"g(a: T) -> R"},
     body : {"b"}]

\* The items of the expanded cascade the compiler keeps under the ambient
\* configuration, in textual order.
VisibleItems ==
    LET all == Flatten(out)
        Kept(e) == EvalGuard(e.cfg, config)
    IN  SelectSeq(all, Kept)

DefsOf(n) == {i \in DOMAIN VisibleItems : VisibleItems[i].item.name = n}

\* macro_rules! scoping: the textually last definition in scope.
Def(n) ==
    LET last == CHOOSE i \in DefsOf(n) : \A j \in DefsOf(n) : j <= i
    IN  VisibleItems[last].item

FnMatches(def, fn) == fn.pub = def.pub

\* #[inline] $(#[$attr])* [pub] [$($constness)*] <fixed> fn ...
ExpandFn(def, fn) ==
    [attrs |-> <<"inline">> \o fn.attrs,
     head |-> (IF def.pub THEN <<"pub">> ELSE <<>>)
                  \o (IF def.keep THEN fn.quals ELSE <<>>)
                  \o def.fixed \o <<"fn">>,
     sig |-> fn.sig,
     body |-> fn.body]

FnExpand ==
    /\ pc = "done" /\ fcall # NoCall
    /\ DefsOf(fcall.name) # {}
    /\ FnMatches(Def(fcall.name), fcall.fn)
    /\ fnout' = <<ExpandFn(Def(fcall.name), fcall.fn)>>
    /\ pc' = "fn_done"
    /\ UNCHANGED <<config, macro, inv, cfgVars, traitVars, fcall>>

\* The macro is not defined, or its pattern does not match.
FnNoRule ==
    /\ pc = "done" /\ fcall # NoCall
    /\ DefsOf(fcall.name) = {} \/ ~FnMatches(Def(fcall.name), fcall.fn)
    /\ pc' = "fn_error"
    /\ UNCHANGED <<config, macro, inv, cfgVars, traitVars, fnVars>>

\* The cascade of the file is expanded, then a function template is
\* invoked.
InitFn ==
    /\ config \in Configs
    /\ macro = "cfg_if"
    /\ inv = ConstFnCascade
    /\ pc = "call"
    /\ nots = <<>> /\ rest = <<>> /\ out = <<>>
    /\ tinv = <<>> /\ pending = <<>> /\ decls = <<>> /\ diag = <<>>
    /\ fcall \in [name : FnMacros, fn : FnInputs]
    /\ fnout = <<>>

NextFn ==
    \/ ChainElseRule
    \/ ItemsRule
    \/ ItemsEnd
    \/ FnExpand
    \/ FnNoRule

SpecFn == InitFn /\ [][NextFn]_vars

\* ---------------------------------------------------- the whole file

Init == InitCfgIf \/ InitTraits \/ InitFn

Next == NextCfgIf \/ NextTraits \/ FnExpand \/ FnNoRule

Spec == Init /\ [][Next]_vars

\* ================================================================ claims

\* The whole condition written in one #[cfg(...)]: the conjunction of its
\* clauses.
ArmPred(m, c) == \A i \in DOMAIN m : m[i] \in c

\* The cascade as an ordered list of (predicate, block) entries, the last
\* one unconditional.
ExplicitList(i) ==
    IF i.form = "items" THEN i.arms
    ELSE i.arms \o <<[m |-> <<>>, it |-> IF i.hasElse THEN i.els ELSE <<>>]>>

RECURSIVE ConcatClauses(_, _)
ConcatClauses(L, k) ==
    IF k = 0 THEN <<>> ELSE ConcatClauses(L, k - 1) \o L[k].m

\* Every conditional arm is written with at least one clause, and every
\* block of the cascade holds at least one item.
NamedArms ==
    /\ inv.form = "chain"
    /\ \A i \in DOMAIN inv.arms : inv.arms[i].m # <<>> /\ inv.arms[i].it # <<>>
    /\ inv.hasElse => inv.els # <<>>

\* The emitted blocks whose guard is true under configuration c.
ActiveBlocks(c) == {i \in DOMAIN out : EvalGuard(out[i].cfg, c)}

\* C1: under every configuration at most one emitted, non-empty block has
\* a true guard.
C1_MutualExclusivity ==
    \A c \in Configs :
        Cardinality({i \in ActiveBlocks(c) : out[i].its # <<>>}) <= 1

\* C2: with a trailing else exactly one block is active under every
\* configuration; without one, no block is active only if no predicate of
\* the cascade matches (stated for arms of one or more clauses each).
C2_Totality ==
    (macro = "cfg_if" /\ pc = "done" /\ NamedArms) =>
        \A c \in Configs :
            IF inv.hasElse
            THEN Cardinality(ActiveBlocks(c)) = 1
            ELSE (\A i \in 1..Len(inv.arms) : i \notin ActiveBlocks(c))
                     => \A i \in 1..Len(inv.arms) : ~ArmPred(inv.arms[i].m, c)

\* C3: the guard of emission i is equivalent to predicate i and none of the
\* predicates before it, the trailing block's to none of the predicates
\* (stated for arms of one or more clauses each).
C3_FirstMatchGuard ==
    (macro = "cfg_if" /\ NamedArms) =>
        \A i \in {j \in DOMAIN out : out[j].its # <<>>} : \A c \in Configs :
            EvalGuard(out[i].cfg, c) <=>
                /\ ArmPred(ExplicitList(inv)[i].m, c)
                /\ \A k \in 1..(i - 1) : ~ArmPred(ExplicitList(inv)[k].m, c)

\* C4: a chain expands to the emissions of its explicit list, a chain with
\* no final else to those of the same chain with an empty else block.
C4_InputFormsEquivalent ==
    (macro = "cfg_if" /\ pc = "done") =>
        /\ out = ExpandItems(<<>>, ExplicitList(inv))
        /\ (inv.form = "chain" /\ ~inv.hasElse) =>
               Flatten(out) =
                   Flatten(ExpandItems(<<>>,
                       ExplicitList([inv EXCEPT !.hasElse = TRUE])))

C4_Witness ==
    /\ macro = "cfg_if" /\ pc = "done" /\ inv.form = "chain"
    /\ inv.hasElse /\ Len(inv.arms) = 2 /\ inv.els # <<>>
    /\ Len(Flatten(out)) >= 3

\* C9, state part: the pass consumes the entries in order, emits each block once, and
\* when entry i is emitted the accumulated list is the clauses of entries
\* 1..i-1 in order; the expansion terminates.
C9_AccInv ==
    (macro = "cfg_if" /\ pc \in {"items", "done"}) =>
        LET L == ExplicitList(inv)
            k == Len(out)
        IN  /\ k <= Len(L)
            /\ rest = SubSeq(L, k + 1, Len(L))
            /\ nots = ConcatClauses(L, k)
            /\ \A i \in 1..k :
                   /\ out[i].its = L[i].it
                   /\ out[i].cfg.all = L[i].m
                   /\ out[i].cfg.notany = ConcatClauses(L, i - 1)
            /\ pc = "done" => k = Len(L)

\* C9, whole: the accumulation invariant holds throughout, the accumulated
\* list only grows, and the expansion terminates.
C9_SinglePass ==
    /\ []C9_AccInv
    /\ [][Len(nots') >= Len(nots) /\ SubSeq(nots', 1, Len(nots)) = nots]_vars
    /\ <>(pc \in {"done", "error"})

C9_Witness ==
    /\ macro = "cfg_if" /\ pc = "done" /\ Len(out) = 3
    /\ out[3].cfg.notany # <<>> /\ out[2].cfg.notany # <<>>
    /\ out[2].cfg.notany # out[3].cfg.notany

\* C10 as stated: an empty cascade expands to nothing without an error, and
\* a lone trailing block is emitted under an always-true guard.
C10_EmptyCascadeExpands ==
    (macro = "cfg_if" /\ inv.arms = <<>> /\ pc \notin {"call", "items"}) =>
        /\ pc = "done"
        /\ ~inv.hasElse => Flatten(out) = <<>>
        /\ inv.hasElse =>
               /\ Len(out) = 1 /\ out[1].its = inv.els
               /\ \A c \in Configs : EvalGuard(out[1].cfg, c)

\* C10 amended: written in the if/else form an empty cascade matches no
\* rule and ends in an expansion error with nothing emitted; written in the
\* @__items form with an empty list it expands to no emission; a lone
\* trailing block is emitted under an always-true guard.
C10_EdgeCases ==
    (macro = "cfg_if" /\ inv.arms = <<>> /\ pc \notin {"call", "items"}) =>
        /\ (inv.form = "chain" /\ ~inv.hasElse) =>
               (pc = "error" /\ Flatten(out) = <<>>)
        /\ inv.form = "items" => (pc = "done" /\ Flatten(out) = <<>>)
        /\ inv.hasElse =>
               /\ pc = "done"
               /\ Len(out) = 1 /\ out[1].its = inv.els
               /\ \A c \in Configs : EvalGuard(out[1].cfg, c)

C10_Witness ==
    /\ macro = "cfg_if" /\ inv.form = "chain" /\ inv.arms = <<>>
    /\ ~inv.hasElse /\ pc = "error"

\* The traits a declaration derives under configuration c.
Capabilities(d, c) == UNION {DerivesOf(d.attrs[i], c) : i \in DOMAIN d.attrs}

HasReprC(d) == \E j \in DOMAIN d.attrs : d.attrs[j] = ReprC

Unions(ds) == {i \in DOMAIN ds : ds[i].kw = "union"}

\* C5: s! given `pub union` declarations ends in the build error naming
\* s_no_extra_traits and emits no union, whatever the fields, the caller's
\* attributes and the extra_traits toggle; s_no_extra_traits! accepts them.
C5_UnionRejection ==
    /\ macro = "s" => Unions(decls) = {}
    /\ (macro = "s" /\ pc \in {"done", "error"} /\ BraceListMatches(tinv)
            /\ Unions(tinv) # {}) =>
           /\ pc = "error"
           /\ Cardinality({j \in DOMAIN diag : diag[j] = UnionError})
                  = Cardinality(Unions(tinv))
    /\ (macro = "s_no_extra_traits" /\ pc \in {"done", "error"}
            /\ \A i \in DOMAIN tinv :
                   tinv[i].shape = "brace" /\ tinv[i].kw = "union") =>
           /\ pc = "done" /\ diag = <<>>
           /\ Len(decls) = Len(tinv)
           /\ \A i \in DOMAIN tinv :
                  /\ decls[i].kw = "union"
                  /\ decls[i].fields = tinv[i].fields

C5_Witness ==
    /\ macro = "s" /\ pc = "error" /\ "extra_traits" \in config
    /\ Len(tinv) = 1 /\ tinv[1].kw = "union" /\ tinv[1].shape = "brace"
    /\ tinv[1].fields # <<>> /\ tinv[1].attrs # <<>>
    /\ diag = <<UnionError>>

C7_LayoutAttr ==
    \A i \in DOMAIN decls :
        HasReprC(decls[i]) <=> decls[i].kw \in {"struct", "union"}

\* The tokens before the signature each template is to write, given the
\* qualifiers it keeps.
Exposure(n, q) ==
    CASE n = "f" -> <<"pub">> \o q \o <<"unsafe", "extern", "fn">>
      [] n = "safe_f" -> <<"pub">> \o q \o <<"extern", "fn">>
      [] n = "const_fn" -> q \o <<"fn">>

\* C8: once the cascade is expanded exactly one definition of each of f!,
\* safe_f! and const_fn! is in scope; the emitted function keeps the
\* caller's qualifiers exactly when const-extern-fn is on, and otherwise
\* differs between the three only in the fixed exposure tokens.
C8_FnParallel ==
    /\ pc \in {"done", "fn_done", "fn_error"} =>
           \A n \in FnMacros : Cardinality(DefsOf(n)) = 1
    /\ pc = "fn_error" => fcall.fn.pub # (fcall.name # "const_fn")
    /\ pc = "fn_done" =>
           LET q == IF "const-extern-fn" \in config
                    THEN fcall.fn.quals ELSE <<>>
           IN  /\ Len(fnout) = 1
               /\ fnout[1].head = Exposure(fcall.name, q)
               /\ fnout[1].attrs = <<"inline">> \o fcall.fn.attrs
               /\ fnout[1].sig = fcall.fn.sig
               /\ fnout[1].body = fcall.fn.body

C8_Witness ==
    /\ pc = "fn_done" /\ fcall.name = "safe_f" /\ fcall.fn.quals # <<>>
    /\ "const-extern-fn" \notin config
    /\ fnout[1].head = <<"pub", "extern", "fn">>

====
